---- MODULE Spec2Model ----
(***************************************************************************)
(* A model of the DuckDuckGo search tool (src/unnamed/part_000): the tool  *)
(* wrapper, its throttled client, its output and their snapshots.          *)
(*                                                                         *)
(* JavaScript objects are functions from property names to values, and an  *)
(* optional value (`x?: T`) is the empty set or a singleton.  Time is the  *)
(* value of Date.now() in milliseconds.  Timers are ideal: a setTimeout    *)
(* callback runs at its due time, before anything else observes that time, *)
(* and callbacks due at the same time run in the order they were created.  *)
(* The throttled client is p-throttle's default (windowed) algorithm, with *)
(* a call whose delay is not positive executed at once.                    *)
(***************************************************************************)
EXTENDS Integers, Sequences, FiniteSets, TLC

VARIABLES
    options,     \* this.options of the tool
    client,      \* this.client: the raw search, or the throttled closure's state
    epoch,       \* how many times loadSnapshot rebuilt the client
    clock,       \* Date.now()
    timers,      \* pending setTimeout callbacks of throttled clients, in creation order
    nextId,      \* number of calls handed to a client so far
    admitted,    \* the backend's call log: one entry per invocation of rawDDGSearch
    inflight,    \* number of backend calls that have not answered yet
    runs,        \* number of run invocations so far
    lastRun,     \* the most recent run invocation: its input and what it did
    lastOutput,  \* what the most recent answered call returned to its caller
    snapshot,    \* the latest output.createSnapshot() value and the output it is of
    restored     \* the fresh output instance the snapshot was loaded into

vars == <<options, client, epoch, clock, timers, nextId, admitted, inflight,
          runs, lastRun, lastOutput, snapshot, restored>>

----------------------------------------------------------------------------
(* Program constants *)

DefaultMaxResultsPerPage == 15
DefaultLimit == 1
DefaultInterval == 3000
MinQueryLength == 1
MaxQueryLength == 128
MinPage == 1
MaxPage == 10
DefaultPage == 1

(* Bounds of the model *)

TickMs == 1000          \* the clock advances in steps of at most TickMs
GateMaxRuns == 4        \* run invocations in the throttling specifications
ToolMaxRuns == 2        \* run invocations in the tool specification
MaxRestores == 1        \* loadSnapshot invocations on the wrapper
MaxResults == 3         \* longest backend response

\* Date.now() at construction: any value larger than every interval behaves
\* like the real clock, whose distance from currentTick = 0 exceeds the interval.
StartTime == 2 * DefaultInterval

----------------------------------------------------------------------------
(* JavaScript helpers *)

EmptyObject == << >>

\* { ...target, ...source } and Object.assign(target, source)
Assign(target, source) ==
    [k \in (DOMAIN target) \cup (DOMAIN source) |->
        IF k \in DOMAIN source THEN source[k] ELSE target[k]]

\* opt ?? dflt
Coalesce(opt, dflt) == IF opt = {} THEN dflt ELSE CHOOSE v \in opt : TRUE

Min(a, b) == IF a <= b THEN a ELSE b

RECURSIVE Repeat(_, _)
Repeat(s, n) == IF n = 0 THEN "" ELSE s \o Repeat(s, n - 1)

----------------------------------------------------------------------------
(* The output of the tool *)

\* new DuckDuckGoSearchToolOutput(results)
DuckDuckGoSearchToolOutput(results) == "results" :> results

createSnapshot(output) == "results" :> output["results"]

loadSnapshot_KeepsOwn(output, snap) == Assign(snap, output)

loadSnapshot(output, snap) == Assign(output, snap)

----------------------------------------------------------------------------
(* The input schema *)

\* A page is n + tenths/10: the schema's .int() refuses tenths # 0.
Page(n, tenths) == [n |-> n, tenths |-> tenths]

PageIsInt(p) == p.tenths = 0

inputSchema_OffByOne(input) ==
    /\ Len(input.query) >= MinQueryLength
    /\ Len(input.query) <= MaxQueryLength + 1
    /\ \A p \in input.page :
          /\ PageIsInt(p)
          /\ p.n >= MinPage - 1
          /\ p.n <= MaxPage

\* z.object({query: string.min(1).max(128), page: number.int().min(1).max(10).optional()})
\* The page is the number the input coerces to.
inputSchema(input) ==
    /\ Len(input.query) >= MinQueryLength
    /\ Len(input.query) <= MaxQueryLength
    /\ \A p \in input.page :
          /\ PageIsInt(p)
          /\ p.n >= MinPage
          /\ p.n <= MaxPage

----------------------------------------------------------------------------
(* Construction *)

\* super({ ...options, maxResultsPerPage: options?.maxResultsPerPage ?? 15 })
Constructor(o) ==
    [o EXCEPT !.maxResultsPerPage = Coalesce(@, DefaultMaxResultsPerPage)]

rawDDGSearch ==
    [throttled |-> FALSE, limit |-> 0, interval |-> 0,
     currentTick |-> 0, activeCount |-> 0]

\* pThrottle({limit, interval}): the closure's state
pThrottle(limit, interval) ==
    [throttled |-> TRUE, limit |-> limit, interval |-> interval,
     currentTick |-> 0, activeCount |-> 0]

_createClient_AbsentIsRaw(opts) ==
    IF opts.throttle.kind # "object"
    THEN rawDDGSearch
    ELSE pThrottle(Coalesce(opts.throttle.limit, DefaultLimit),
                   Coalesce(opts.throttle.interval, DefaultInterval))

_createClient(opts) ==
    IF opts.throttle.kind = "false"
    THEN rawDDGSearch
    ELSE pThrottle(Coalesce(opts.throttle.limit, DefaultLimit),
                   Coalesce(opts.throttle.interval, DefaultInterval))

----------------------------------------------------------------------------
(* The throttled client (p-throttle, windowed) *)

windowedDelay_OffByOne(c, now) ==
    IF now - c.currentTick > c.interval
    THEN [client |-> [c EXCEPT !.activeCount = 1, !.currentTick = now], delay |-> 0]
    ELSE IF c.activeCount <= c.limit
    THEN [client |-> [c EXCEPT !.activeCount = @ + 1],
          delay |-> c.currentTick - now]
    ELSE [client |-> [c EXCEPT !.activeCount = 1, !.currentTick = @ + c.interval],
          delay |-> (c.currentTick + c.interval) - now]

windowedDelay_NoNewWindow(c, now) ==
    IF now - c.currentTick > c.interval
    THEN [client |-> [c EXCEPT !.activeCount = 1, !.currentTick = now], delay |-> 0]
    ELSE [client |-> [c EXCEPT !.activeCount = @ + 1],
          delay |-> c.currentTick - now]

windowedDelay_WindowFromNow(c, now) ==
    IF now - c.currentTick > c.interval
    THEN [client |-> [c EXCEPT !.activeCount = 1, !.currentTick = now], delay |-> 0]
    ELSE IF c.activeCount < c.limit
    THEN [client |-> [c EXCEPT !.activeCount = @ + 1],
          delay |-> c.currentTick - now]
    ELSE [client |-> [c EXCEPT !.activeCount = 1, !.currentTick = now],
          delay |-> c.interval]

\* getDelay(): the delay of the next call and the closure's state after it
windowedDelay(c, now) ==
    IF now - c.currentTick > c.interval
    THEN [client |-> [c EXCEPT !.activeCount = 1, !.currentTick = now], delay |-> 0]
    ELSE IF c.activeCount < c.limit
    THEN [client |-> [c EXCEPT !.activeCount = @ + 1],
          delay |-> c.currentTick - now]
    ELSE [client |-> [c EXCEPT !.activeCount = 1, !.currentTick = @ + c.interval],
          delay |-> (c.currentTick + c.interval) - now]

\* One invocation of rawDDGSearch, as the backend sees it.
BackendCall(id, submittedAt, tick) ==
    [id |-> id, at |-> clock, submittedAt |-> submittedAt, epoch |-> epoch,
     tick |-> tick]

\* this.client(...): the raw search is invoked at once; the throttled one at
\* once when its delay is not positive, by a timer otherwise.
CallClient(id) ==
    IF ~client.throttled
    THEN /\ admitted' = Append(admitted, BackendCall(id, clock, 0))
         /\ inflight' = inflight + 1
         /\ UNCHANGED <<client, timers>>
    ELSE LET d == windowedDelay(client, clock) IN
         /\ client' = d.client
         /\ IF d.delay > 0
            THEN /\ timers' = Append(timers,
                        [id |-> id, due |-> clock + d.delay, submittedAt |-> clock,
                         epoch |-> epoch, tick |-> d.client.currentTick])
                 /\ UNCHANGED <<admitted, inflight>>
            ELSE /\ admitted' = Append(admitted,
                        BackendCall(id, clock, d.client.currentTick))
                 /\ inflight' = inflight + 1
                 /\ UNCHANGED timers

----------------------------------------------------------------------------
(* run *)

Bearer(key) == "Bearer " \o key

\* headers of the request: the generated ones, plus Authorization with an API key
Headers(generated) ==
    IF options.apiKey # {} /\ Coalesce(options.apiKey, "") # ""
    THEN Assign(generated, "Authorization" :> Bearer(Coalesce(options.apiKey, "")))
    ELSE generated

HttpsProxyAgent(url) == [proxy |-> url]

HttpClientOptions(runOptions) ==
    LET merged == Assign(options.httpClientOptions, runOptions.httpClientOptions)
    IN  IF options.http_proxy_url # {}
        THEN Assign(merged,
                    "agent" :> HttpsProxyAgent(Coalesce(options.http_proxy_url, "")))
        ELSE merged

PageOf(input) == Coalesce(input.page, Page(DefaultPage, 0)).n

Offset_PageNotZeroBased(input) == options.maxResultsPerPage * PageOf(input)

Offset(input) == options.maxResultsPerPage * (PageOf(input) - 1)

SearchOptions(input, runOptions) ==
    Assign(Assign(("offset" :> Offset(input)) @@ ("safeSearch" :> "MODERATE"),
                  options.search),
           runOptions.search)

TransportOptions(headers, runOptions) ==
    Assign(("headers" :> headers) @@ ("user_agent" :> headers["user-agent"]),
           HttpClientOptions(runOptions))

\* _run up to its await of this.client(...)
_run(input, runOptions, generated) ==
    LET id == nextId + 1
        headers == Headers(generated)
    IN  /\ nextId' = id
        /\ lastRun' = [seq |-> runs + 1, input |-> input, outcome |-> "submitted",
                       runOptions |-> runOptions, id |-> id,
                       offset |-> Offset(input),
                       searchOptions |-> SearchOptions(input, runOptions),
                       transport |-> TransportOptions(headers, runOptions)]
        /\ CallClient(id)

\* run: the input is validated against inputSchema() before _run is entered.
\* A run observes a time only after the timers due at that time have fired.
Run(input, runOptions, generated) ==
    /\ \A t \in 1..Len(timers) : timers[t].due > clock
    /\ runs' = runs + 1
    /\ IF inputSchema(input)
       THEN _run(input, runOptions, generated)
       ELSE /\ lastRun' = [seq |-> runs + 1, input |-> input,
                           outcome |-> "ValidationError"]
            /\ UNCHANGED <<client, timers, nextId, admitted, inflight>>
    /\ UNCHANGED <<options, epoch, clock, lastOutput, snapshot, restored>>

----------------------------------------------------------------------------
(* Timers and the clock *)

RemoveAt(s, i) == SubSeq(s, 1, i - 1) \o SubSeq(s, i + 1, Len(s))

\* The callback that runs next: the earliest due, the first created among equals.
NextTimer(i) ==
    /\ timers[i].due <= clock
    /\ \A j \in 1..Len(timers) :
          \/ timers[j].due > timers[i].due
          \/ (timers[j].due = timers[i].due /\ j >= i)

\* execute(): a throttled call's timer fires and the backend is invoked
Execute ==
    \E i \in 1..Len(timers) :
        /\ NextTimer(i)
        /\ admitted' = Append(admitted,
               [id |-> timers[i].id, at |-> clock,
                submittedAt |-> timers[i].submittedAt,
                epoch |-> timers[i].epoch, tick |-> timers[i].tick])
        /\ inflight' = inflight + 1
        /\ timers' = RemoveAt(timers, i)
        /\ UNCHANGED <<options, client, epoch, clock, nextId, runs, lastRun,
                       lastOutput, snapshot, restored>>

RECURSIVE MinDue(_)
MinDue(s) ==
    IF Len(s) = 1 THEN s[1].due ELSE Min(s[1].due, MinDue(Tail(s)))

\* Time passes, up to the next timer's due time.  Once nothing is queued and
\* the client's window is over, more time changes nothing the client does.
Tick ==
    /\ \A t \in 1..Len(timers) : timers[t].due > clock
    /\ \/ timers # << >>
       \/ (client.throttled /\ clock - client.currentTick <= client.interval)
    /\ clock' = IF timers = << >>
                THEN clock + TickMs
                ELSE Min(clock + TickMs, MinDue(timers))
    /\ UNCHANGED <<options, client, epoch, timers, nextId, admitted, inflight,
                   runs, lastRun, lastOutput, snapshot, restored>>

----------------------------------------------------------------------------
(* The backend's answer and the rest of _run *)

MarkupTokens == {"<b>", "</b>", "<i>"}

\* stripHtml(text).result: a text is a sequence of tokens, markup or plain
stripHtml(text) == SelectSeq(text, LAMBDA t : t \notin MarkupTokens)

Normalize(result) ==
    [title |-> stripHtml(result.title),
     description |-> stripHtml(result.description),
     url |-> result.url]

Truncate_OneTooMany(results) ==
    IF Len(results) > options.maxResultsPerPage
    THEN SubSeq(results, 1, options.maxResultsPerPage + 1)
    ELSE results

\* if (results.length > cap) results.length = cap   (for a cap that is a length)
Truncate(results) ==
    IF Len(results) > options.maxResultsPerPage
    THEN SubSeq(results, 1, options.maxResultsPerPage)
    ELSE results

\* _run after its await: the answer is cut to the cap and normalised
Respond(answer) ==
    /\ inflight > 0
    /\ inflight' = inflight - 1
    /\ lastOutput' =
         IF ~answer.ok
         THEN [outcome |-> "BackendError"]
         ELSE IF Len(answer.results) > options.maxResultsPerPage
                 /\ options.maxResultsPerPage < 0
         THEN [outcome |-> "RangeError"]
         ELSE LET kept == Truncate(answer.results) IN
              [outcome |-> "ok", raw |-> answer.results,
               output |-> DuckDuckGoSearchToolOutput(
                              [i \in 1..Len(kept) |-> Normalize(kept[i])])]
    /\ UNCHANGED <<options, client, epoch, clock, timers, nextId, admitted,
                   runs, lastRun, snapshot, restored>>

----------------------------------------------------------------------------
(* Snapshots *)

\* output.createSnapshot()
CreateSnapshot ==
    /\ lastOutput.outcome = "ok"
    /\ snapshot' = {[of |-> lastOutput.output,
                     value |-> createSnapshot(lastOutput.output)]}
    /\ UNCHANGED <<options, client, epoch, clock, timers, nextId, admitted,
                   inflight, runs, lastRun, lastOutput, restored>>

\* fresh.loadSnapshot(snapshot)
LoadSnapshot(fresh) ==
    /\ \E s \in snapshot :
          restored' = {[of |-> s.of, snapshot |-> s.value, fresh |-> fresh,
                        instance |-> loadSnapshot(fresh, s.value)]}
    /\ UNCHANGED <<options, client, epoch, clock, timers, nextId, admitted,
                   inflight, runs, lastRun, lastOutput, snapshot>>

\* tool.loadSnapshot(snapshot): the tool's state is restored and the client rebuilt
Tool_loadSnapshot ==
    /\ epoch < MaxRestores
    /\ \A t \in 1..Len(timers) : timers[t].due > clock
    /\ epoch' = epoch + 1
    /\ client' = _createClient(options)
    /\ UNCHANGED <<options, clock, timers, nextId, admitted, inflight, runs,
                   lastRun, lastOutput, snapshot, restored>>

----------------------------------------------------------------------------
(* Inputs *)

NoThrottleOptions == [kind |-> "undefined", limit |-> {}, interval |-> {}]

ThrottleChoices ==
    { [kind |-> "false", limit |-> {}, interval |-> {}],
      NoThrottleOptions,
      [kind |-> "object", limit |-> {}, interval |-> {2 * TickMs}],
      [kind |-> "object", limit |-> {2}, interval |-> {}] }

DefaultOptions ==
    [throttle |-> NoThrottleOptions, maxResultsPerPage |-> {}, apiKey |-> {},
     httpClientOptions |-> EmptyObject, search |-> EmptyObject,
     http_proxy_url |-> {}]

\* Options of the throttling specifications: every throttle policy.
GateOptions == { [DefaultOptions EXCEPT !.throttle = t] : t \in ThrottleChoices }

HttpClientOptionsChoices ==
    { EmptyObject,
      ("headers" :> ("accept" :> "text/html")) @@ ("open_timeout" :> 5000) }

SearchOptionsChoices == { EmptyObject, "offset" :> 7 }

\* Options of the tool specification: the cap with the search options, and
\* the API key with the HTTP client options and the proxy.
ToolOptions ==
    { [DefaultOptions EXCEPT !.maxResultsPerPage = cap, !.search = search] :
        cap \in {{}, {-1}, {0}, {2}}, search \in SearchOptionsChoices }
    \cup
    { [DefaultOptions EXCEPT !.apiKey = key, !.httpClientOptions = http,
                             !.http_proxy_url = proxy] :
        key \in {{}, {"secret"}}, http \in HttpClientOptionsChoices,
        proxy \in {{}, {"http://proxy:8080"}} }

NoRunOptions == [search |-> EmptyObject, httpClientOptions |-> EmptyObject]

RunOptionsChoices ==
    { NoRunOptions }
    \cup { [NoRunOptions EXCEPT !.search = o] : o \in SearchOptionsChoices }
    \cup { [NoRunOptions EXCEPT !.httpClientOptions = o] :
             o \in HttpClientOptionsChoices }

\* new HeaderGenerator().getHeaders()
GeneratedHeaders == ("user-agent" :> "Mozilla/5.0") @@ ("accept" :> "*/*")

GateInputs == { [query |-> "bee", page |-> {}], [query |-> "", page |-> {}] }

ToolInputs ==
    [query : {"b"},
     page : { {}, {Page(0, 0)}, {Page(1, 5)}, {Page(2, 0)},
              {Page(MaxPage, 0)}, {Page(MaxPage + 1, 0)} }]
    \cup
    [query : { "", Repeat("b", MaxQueryLength), Repeat("b", MaxQueryLength + 1) },
     page : { {} }]

RawResults ==
    { [title |-> <<"<b>", "Foo", "</b>">>, description |-> <<"Bar">>,
       url |-> "https://a.example"],
      [title |-> <<"Baz">>, description |-> <<"<i>", "Qux">>,
       url |-> "https://b.example"] }

BackendFailure == [ok |-> FALSE, results |-> << >>]

GateAnswers == { BackendFailure, [ok |-> TRUE, results |-> << >>] }

\* Answers of 0..MaxResults results, neighbours differing.
ToolAnswers ==
    {BackendFailure} \cup
    { [ok |-> TRUE,
       results |-> [i \in 1..n |-> IF i % 2 = 1 THEN first
                                   ELSE CHOOSE r \in RawResults : r # first]] :
        n \in 0..MaxResults, first \in RawResults }

NormalizedResults ==
    { Normalize(r) : r \in RawResults } \cup
    { [title |-> <<"Bee">>, description |-> << >>, url |-> "https://c.example"] }

\* Outputs of at most MaxResults results.
Outputs ==
    { DuckDuckGoSearchToolOutput(r) :
        r \in UNION { [1..n -> NormalizedResults] : n \in 0..MaxResults } }

FreshOutputs == { EmptyObject, DuckDuckGoSearchToolOutput(<< >>) }

----------------------------------------------------------------------------
(* Specifications *)

\* The state after new DuckDuckGoSearchTool(o)
Constructed(o) ==
    /\ options = Constructor(o)
    /\ client = _createClient(Constructor(o))
    /\ epoch = 0
    /\ clock = StartTime
    /\ timers = << >>
    /\ nextId = 0
    /\ admitted = << >>
    /\ inflight = 0
    /\ runs = 0
    /\ lastRun = [seq |-> 0, outcome |-> "none"]
    /\ snapshot = {}
    /\ restored = {}

Init ==
    /\ \E o \in GateOptions : Constructed(o)
    /\ lastOutput = [outcome |-> "none"]

GateRun ==
    /\ runs < GateMaxRuns
    /\ \E input \in GateInputs : Run(input, NoRunOptions, GeneratedHeaders)

GateRespond == \E answer \in GateAnswers : Respond(answer)

\* Concurrent run invocations and restores of one tool, under every throttle policy.
Next == GateRun \/ Execute \/ Tick \/ GateRespond \/ Tool_loadSnapshot

Spec == Init /\ [][Next]_vars

\* Concurrent run invocations alone; time passes and due timers fire.
NextRuns == GateRun \/ Execute \/ Tick \/ GateRespond

SpecRuns == Init /\ [][NextRuns]_vars /\ WF_vars(Tick) /\ WF_vars(Execute)

InitTool ==
    /\ \E o \in ToolOptions : Constructed(o)
    /\ lastOutput = [outcome |-> "none"]

ToolRun ==
    /\ runs < ToolMaxRuns
    /\ \E input \in ToolInputs, runOptions \in RunOptionsChoices :
          Run(input, runOptions, GeneratedHeaders)

ToolRespond == \E answer \in ToolAnswers : Respond(answer)

\* The whole run of the tool: every option, input and answer.
NextTool == ToolRun \/ Execute \/ Tick \/ ToolRespond

SpecTool == InitTool /\ [][NextTool]_vars

InitOutput ==
    /\ Constructed(DefaultOptions)
    /\ \E output \in Outputs : lastOutput = [outcome |-> "ok", output |-> output]

OutputLoadSnapshot == \E fresh \in FreshOutputs : LoadSnapshot(fresh)

\* An output, its snapshots and the fresh instances they are loaded into.
NextOutput == CreateSnapshot \/ OutputLoadSnapshot

SpecOutput == InitOutput /\ [][NextOutput]_vars

----------------------------------------------------------------------------
(* What the claims speak of *)

ThrottlingEnabled == options.throttle.kind # "false"

\* The policy as configured: 1 call per 3000 ms for whichever part is absent.
ConfiguredLimit == Coalesce(options.throttle.limit, DefaultLimit)

ConfiguredInterval == Coalesce(options.throttle.interval, DefaultInterval)

Delayed(call) == call.at > call.submittedAt

\* At most `limit` of the calls in `log` start within any `interval` ms.
RateKept(log, limit, interval) ==
    \A i, j \in 1..Len(log) :
        j = i + limit => log[j].at - log[i].at >= interval

\* The calls of `log` admitted by the client of epoch e, in order.
CallsOf(log, e) == SelectSeq(log, LAMBDA c : c.epoch = e)

\* At most `limit` calls per window of a client, each started inside its window.
WindowsKept(log, limit, interval) ==
    \A i \in 1..Len(log) :
        /\ Cardinality({ j \in 1..Len(log) : log[j].tick = log[i].tick }) <= limit
        /\ log[i].at >= log[i].tick
        /\ log[i].at <= log[i].tick + interval

(* C1, as stated: while the client is not rebuilt, at most `limit` calls   *)
(* reach the backend within any window of length `interval`.               *)
C1_RateInAnyWindow ==
    (ThrottlingEnabled /\ epoch = 0) =>
        RateKept(admitted, ConfiguredLimit, ConfiguredInterval)

(* C1, amended: while the client is not rebuilt, at most `limit` calls     *)
(* start in each window of the gate; consecutive windows open at least one *)
(* interval apart, so with limit 1 consecutive calls are at least one      *)
(* interval apart.                                                         *)
C1_RatePerGateWindow ==
    (ThrottlingEnabled /\ epoch = 0) =>
        /\ WindowsKept(admitted, ConfiguredLimit, ConfiguredInterval)
        /\ \A i, j \in 1..Len(admitted) :
              admitted[i].tick < admitted[j].tick =>
                  admitted[j].tick - admitted[i].tick >= ConfiguredInterval
        /\ ConfiguredLimit = 1 =>
              RateKept(admitted, 1, ConfiguredInterval)

C1_Witness ==
    /\ ThrottlingEnabled
    /\ epoch = 0
    /\ Len(admitted) >= 3
    /\ Delayed(admitted[3])

C7_AbsentIsPassthrough ==
    options.throttle.kind = "undefined" =>
        /\ timers = << >>
        /\ \A i \in 1..Len(admitted) : ~Delayed(admitted[i])

(* C7, amended: the client is a passthrough when throttle is false, and no *)
(* call then waits; with the throttle option absent the client is          *)
(* throttled at 1 call per 3000 ms.                                        *)
C7_FalseIsPassthrough ==
    /\ options.throttle.kind = "false" =>
          /\ ~client.throttled
          /\ timers = << >>
          /\ \A i \in 1..Len(admitted) : ~Delayed(admitted[i])
    /\ options.throttle.kind = "undefined" =>
          /\ client.throttled
          /\ client.limit = DefaultLimit
          /\ client.interval = DefaultInterval

C7_Witness ==
    /\ options.throttle.kind = "false"
    /\ Len(admitted) >= 2
    /\ admitted[1].at = admitted[2].at

(* C10, as stated, for a limit of 1: counting the calls of the client held *)
(* before a restore and of the rebuilt one together, at most one call      *)
(* reaches the backend within any window of length `interval`.             *)
C10_RateAcrossRestore ==
    (ThrottlingEnabled /\ ConfiguredLimit = 1) =>
        RateKept(admitted, 1, ConfiguredInterval)

(* C10, amended: a restore rebuilds the client from the configured policy  *)
(* with a fresh gate; each client keeps the rate for the calls made        *)
(* through it, the two together do not.                                    *)
C10_RatePerClient ==
    ThrottlingEnabled =>
        /\ client.throttled
        /\ client.limit = ConfiguredLimit
        /\ client.interval = ConfiguredInterval
        /\ \A e \in 0..epoch :
              /\ WindowsKept(CallsOf(admitted, e), ConfiguredLimit,
                             ConfiguredInterval)
              /\ ConfiguredLimit = 1 =>
                    RateKept(CallsOf(admitted, e), 1, ConfiguredInterval)

C10_Witness ==
    /\ ThrottlingEnabled
    /\ ConfiguredLimit = 1
    /\ \E i, j \in 1..Len(admitted) :
          /\ i < j
          /\ admitted[i].epoch = 0
          /\ admitted[j].epoch = 1
          /\ admitted[j].at - admitted[i].at < ConfiguredInterval
    /\ Len(CallsOf(admitted, 1)) >= 2

\* The input is outside the schema: its query or its page.
OutsideSchema(input) ==
    \/ Len(input.query) < MinQueryLength
    \/ Len(input.query) > MaxQueryLength
    \/ \E p \in input.page : ~(p.tenths = 0 /\ p.n \in MinPage..MaxPage)

(* C3: a run whose query has fewer than 1 or more than 128 characters, or  *)
(* whose page is not an integer of 1..10, fails with a validation error,   *)
(* calls the backend no more and leaves the throttle gate as it was.       *)
C3_InvalidInputMakesNoCall ==
    [][(runs' = runs + 1 /\ OutsideSchema(lastRun'.input)) =>
          /\ lastRun'.outcome = "ValidationError"
          /\ admitted' = admitted
          /\ inflight' = inflight
          /\ nextId' = nextId
          /\ timers' = timers
          /\ client' = client]_vars

C3_Witness ==
    /\ lastRun.outcome = "ValidationError"
    /\ lastRun.seq = 2
    /\ Len(admitted) = 1
    /\ \E p \in lastRun.input.page : p.n = MaxPage + 1

(* C4: for every valid page and every cap the offset run computes is       *)
(* cap * (page - 1), page 1 when none is given; it is the offset the       *)
(* backend is called with unless the search options set one.               *)
C4_OffsetOfPage ==
    lastRun.outcome = "submitted" =>
        LET page == IF lastRun.input.page = {} THEN 1
                    ELSE (CHOOSE p \in lastRun.input.page : TRUE).n
            expected == options.maxResultsPerPage * (page - 1)
        IN  /\ lastRun.offset = expected
            /\ ("offset" \notin DOMAIN options.search
                  /\ "offset" \notin DOMAIN lastRun.runOptions.search) =>
                   lastRun.searchOptions["offset"] = expected

C4_Witness ==
    /\ lastRun.outcome = "submitted"
    /\ lastRun.input.page = {Page(MaxPage, 0)}
    /\ options.maxResultsPerPage = 2
    /\ lastRun.searchOptions["offset"] = 2 * (MaxPage - 1)

(* C5: an output has min(length of the answer, cap) entries, the i-th made *)
(* from the i-th result of the answer.                                     *)
C5_OutputIsCappedPrefix ==
    lastOutput.outcome = "ok" =>
        LET out == lastOutput.output["results"]
            raw == lastOutput.raw
        IN  /\ Len(out) = Min(Len(raw), options.maxResultsPerPage)
            /\ \A i \in 1..Len(out) :
                  /\ out[i].title = stripHtml(raw[i].title)
                  /\ out[i].description = stripHtml(raw[i].description)
                  /\ out[i].url = raw[i].url

C5_Witness ==
    /\ lastOutput.outcome = "ok"
    /\ options.maxResultsPerPage = 2
    /\ Len(lastOutput.raw) > 2
    /\ Len(lastOutput.output["results"]) = 2

(* C6: a snapshot of an output holds the results field alone, and loading  *)
(* it into a fresh output gives that output the same results.              *)
C6_SnapshotRoundTrip ==
    /\ \A s \in snapshot :
          /\ DOMAIN s.value = {"results"}
          /\ s.value["results"] = s.of["results"]
    /\ \A r \in restored :
          /\ DOMAIN r.instance = {"results"}
          /\ r.instance["results"] = r.of["results"]

C6_Witness ==
    \E r \in restored :
        /\ Len(r.of["results"]) = MaxResults
        /\ r.fresh = DuckDuckGoSearchToolOutput(<< >>)
        /\ r.instance["results"][1] # r.instance["results"][2]

(* C8: the cap of a constructed tool is a positive integer.                *)
C8_CapIsPositive == options.maxResultsPerPage > 0

(* C9: with an API key configured, the headers the backend is called with  *)
(* hold Authorization: Bearer <key>.                                       *)
C9_AuthorizationSent ==
    (lastRun.outcome = "submitted" /\ options.apiKey # {}) =>
        /\ "Authorization" \in DOMAIN lastRun.transport["headers"]
        /\ lastRun.transport["headers"]["Authorization"] =
               "Bearer " \o (CHOOSE k \in options.apiKey : TRUE)

====
